---- MODULE Spec2Model ----
(***************************************************************************)
(* State machine of src/src/app.ts: the observable project store           *)
(* (State / ProjectState), the validator, the two list views and the       *)
(* input form, with the module-level startup sequence.                     *)
(*                                                                         *)
(* Text (the value of an input field, a title) is a sequence of            *)
(* one-character strings, so that trim(), length and the unary plus        *)
(* conversion are computed character by character.  A JavaScript number    *)
(* is a record [nan, num, den]: NaN, or the decimal fraction num/den with  *)
(* den a power of ten.                                                     *)
(***************************************************************************)
EXTENDS Integers, Sequences, FiniteSets, TLC

----------------------------------------------------------------------------
(* Bounds of the model *)

\* at most this many projects are added (over all stores)
MaxProjects == 2
\* at most this many listeners are registered by test code (over all stores)
MaxListeners == 2
\* at most this many calls of ProjectState.getInstance
MaxInstances == 2

----------------------------------------------------------------------------
(* Values *)

\* An optional value is a set of at most one element: Undefined when it is
\* absent (undefined / null), Some(x) when it is x
Undefined == {}

Some(x) == {x}

The(o) == CHOOSE x \in o : TRUE

\* enum ProjectStatus
ProjectStatus == [active |-> "active", finished |-> "finished"]

\* the two list view categories
ListTypes == {"active", "finished"}

Digits == {"0", "1", "2", "3", "4", "5", "6", "7", "8", "9"}

DigitValue(c) ==
    CASE c = "0" -> 0 [] c = "1" -> 1 [] c = "2" -> 2 [] c = "3" -> 3
      [] c = "4" -> 4 [] c = "5" -> 5 [] c = "6" -> 6 [] c = "7" -> 7
      [] c = "8" -> 8 [] c = "9" -> 9

DigitChar(d) ==
    CASE d = 0 -> "0" [] d = 1 -> "1" [] d = 2 -> "2" [] d = 3 -> "3"
      [] d = 4 -> "4" [] d = 5 -> "5" [] d = 6 -> "6" [] d = 7 -> "7"
      [] d = 8 -> "8" [] d = 9 -> "9"

WhiteSpace == {" "}

\* String.prototype.trim: drop leading and trailing white space
RECURSIVE TrimStart(_)
TrimStart(s) ==
    IF s # <<>> /\ Head(s) \in WhiteSpace THEN TrimStart(Tail(s)) ELSE s

RECURSIVE TrimEnd(_)
TrimEnd(s) ==
    IF s # <<>> /\ s[Len(s)] \in WhiteSpace
    THEN TrimEnd(SubSeq(s, 1, Len(s) - 1))
    ELSE s

\* a trim that drops nothing
NoTrim(s) == s

Trim(s) == TrimEnd(TrimStart(s))

\* a JavaScript number
Num(n) == [nan |-> FALSE, num |-> n, den |-> 1]

NaN == [nan |-> TRUE, num |-> 0, den |-> 1]

\* the decimal fraction num/den without trailing zeros in the fraction
RECURSIVE Normalise(_)
Normalise(x) ==
    IF ~x.nan /\ x.den > 1 /\ x.num % 10 = 0
    THEN Normalise([x EXCEPT !.num = x.num \div 10, !.den = x.den \div 10])
    ELSE x

\* value of a sequence of decimal digits
RECURSIVE DigitsValue(_)
DigitsValue(s) ==
    IF s = <<>> THEN 0
    ELSE 10 * DigitsValue(SubSeq(s, 1, Len(s) - 1)) + DigitValue(s[Len(s)])

RECURSIVE Pow10(_)
Pow10(k) == IF k = 0 THEN 1 ELSE 10 * Pow10(k - 1)

\* unary plus on a string (ToNumber): white space is trimmed, the empty
\* string is 0, an unsigned decimal literal (digits with at most one ".")
\* is its value, anything else is NaN
ToNumber(s) ==
    LET t == Trim(s)
        dots == {i \in 1..Len(t) : t[i] = "."}
        digs == {i \in 1..Len(t) : t[i] \in Digits}
    IN  IF t = <<>> THEN Num(0)
        ELSE IF dots \cup digs # 1..Len(t) \/ Cardinality(dots) > 1 \/ digs = {}
        THEN NaN
        ELSE LET ds == SelectSeq(t, LAMBDA c : c \in Digits)
                 frac == IF dots = {} THEN 0
                         ELSE Len(t) - (CHOOSE i \in dots : TRUE)
             IN  Normalise([nan |-> FALSE, num |-> DigitsValue(ds),
                            den |-> Pow10(frac)])

\* decimal digits of a natural number
RECURSIVE NatToString(_)
NatToString(n) ==
    IF n < 10 THEN <<DigitChar(n)>>
    ELSE NatToString(n \div 10) \o <<DigitChar(n % 10)>>

\* the k low decimal digits of n, zero padded
RECURSIVE FracToString(_, _)
FracToString(n, k) ==
    IF k = 0 THEN <<>>
    ELSE FracToString(n \div 10, k - 1) \o <<DigitChar(n % 10)>>

RECURSIVE Log10(_)
Log10(d) == IF d <= 1 THEN 0 ELSE 1 + Log10(d \div 10)

\* Number.prototype.toString
NumberToString(x) ==
    IF x.nan THEN <<"N", "a", "N">>
    ELSE IF x.den = 1 THEN NatToString(x.num)
    ELSE NatToString(x.num \div x.den) \o <<".">>
           \o FracToString(x.num % x.den, Log10(x.den))

\* a value of type string | number
Str(s) == [type |-> "string", str |-> s, num |-> NaN]

NumVal(x) == [type |-> "number", str |-> <<>>, num |-> x]

\* value.toString()
ValueToString(v) == IF v.type = "string" THEN v.str ELSE NumberToString(v.num)

\* x > n
NumGt(x, n) == ~x.nan /\ x.num > n * x.den

\* x >= n and x <= n for a number x and an integer n (false for NaN)
NumGe(x, n) == ~x.nan /\ x.num >= n * x.den

\* x < n
NumLt(x, n) == ~x.nan /\ x.num < n * x.den

NumLe(x, n) == ~x.nan /\ x.num <= n * x.den

----------------------------------------------------------------------------
(* Validator *)

\* interface Validatable: the value, the required flag (FALSE when absent)
\* and the optional constraints
Validatable(value, required, minLength, maxLength, min, max) ==
    [value |-> value, required |-> required, minLength |-> minLength,
     maxLength |-> maxLength, min |-> min, max |-> max]

\* a validate that converts the value to the type a constraint is about:
\* the length of a number is that of its text, the amount of a text is the
\* number it parses to
validateCoerce(validatableInput) ==
    LET v == validatableInput.value
        text == ValueToString(v)
        amount == IF v.type = "number" THEN v.num ELSE ToNumber(v.str)
    IN  /\ validatableInput.required => Len(Trim(text)) # 0
        /\ validatableInput.minLength # Undefined =>
              Len(text) >= The(validatableInput.minLength)
        /\ validatableInput.maxLength # Undefined =>
              Len(text) <= The(validatableInput.maxLength)
        /\ validatableInput.min # Undefined =>
              NumGe(amount, The(validatableInput.min))
        /\ validatableInput.max # Undefined =>
              NumLe(amount, The(validatableInput.max))

\* function validate
validate(validatableInput) ==
    LET v == validatableInput.value
        r1 == IF validatableInput.required
              THEN Len(Trim(ValueToString(v))) # 0
              ELSE TRUE
        r2 == IF validatableInput.minLength # Undefined /\ v.type = "string"
              THEN r1 /\ Len(v.str) >= The(validatableInput.minLength)
              ELSE r1
        r3 == IF validatableInput.maxLength # Undefined /\ v.type = "string"
              THEN r2 /\ Len(v.str) <= The(validatableInput.maxLength)
              ELSE r2
        r4 == IF validatableInput.min # Undefined /\ v.type = "number"
              THEN r3 /\ NumGe(v.num, The(validatableInput.min))
              ELSE r3
        r5 == IF validatableInput.max # Undefined /\ v.type = "number"
              THEN r4 /\ NumLe(v.num, The(validatableInput.max))
              ELSE r4
    IN  r5

----------------------------------------------------------------------------
(* Inputs *)

\* what the user may type into the title, description and people fields
TitleInputs == {<<>>, <<" ">>, <<"a">>, <<"b">>}

DescriptionInputs == {<<>>, <<"x">>}

PeopleInputs ==
    {<<>>, <<"0">>, <<"1">>, <<"9">>, <<"1", "0">>, <<"2", ".", "5">>, <<"a">>}

\* the strings Math.random().toString() may return
RandomIds == {"0.1", "0.7"}

\* arguments of a direct call of addProject
ProjectArgs ==
    {[title |-> <<"a">>, description |-> <<"x">>, people |-> Num(1)],
     [title |-> <<"b">>, description |-> <<"y">>, people |-> Num(2)]}

\* arguments of a direct call of validate: texts and numbers, with every
\* combination of constraints being set or absent
ValidatableValues ==
    {Str(<<>>), Str(<<" ">>), Str(<<" ", " ">>), Str(<<"a">>),
     Str(<<" ", "a">>), Str(<<"a", "b">>), Str(<<"5">>),
     NumVal(Num(0)), NumVal(Num(1)), NumVal(Num(5)), NumVal(Num(9)),
     NumVal(Num(10)), NumVal(NaN)}

Validatables ==
    {Validatable(value, required, minLength, maxLength, min, max) :
        value \in ValidatableValues, required \in BOOLEAN,
        minLength \in {Undefined, Some(1), Some(2)},
        maxLength \in {Undefined, Some(1)},
        min \in {Undefined, Some(1)}, max \in {Undefined, Some(9)}}

\* the templates and the host element the page may hold, and what the host
\* element may already contain when the script starts
TemplateIds == {"project-input", "project-list"}

Documents == [templates : SUBSET TemplateIds, elements : SUBSET {"app"}]

HostContents == {<<>>, <<"content">>}

\* the page the application is written for: both templates, the host element
CompletePage == [templates |-> TemplateIds, elements |-> {"app"}]

\* listeners registered by code outside the views: one that only reads the
\* sequence it receives, and three that change it
TestListeners == {"record", "push", "pop", "reverse"}

----------------------------------------------------------------------------
(* State *)

VARIABLES
    instance,                 \* ProjectState.instance (static field)
    stores,                   \* the ProjectState objects: [projects, listeners]
    handles,                  \* results of the getInstance calls; handles[1]
                              \* is the module constant projectState
    pc,                       \* next statement of the module-level startup
    document,                 \* the templates and elements getElementById finds
    hostChildren,             \* the children of the host element #app
    hostAfter,                \* the siblings that follow #app, nearest first
    submitListener,           \* the submit listener registered on the form
    titleInputElement,        \* value of the #title input
    descriptionInputElement,  \* value of the #description input
    peopleInputElement,       \* value of the #people input
    ulId,                     \* id of each list view's <ul>
    heading,                  \* text of each list view's <h2>
    assignedProjects,         \* ProjectList.assignedProjects of each view
    listEl,                   \* text of the <li> items of each view's <ul>
    calls,                    \* listener invocations of the last operation
    addCalls,                 \* per store, the arguments of the addProject
                              \* calls made on it so far, in call order
    lastOp,                   \* the last operation and its outcome
    received,                 \* per store and listener, in registration
                              \* order: how many projects the store held when
                              \* the listener was registered (since) and the
                              \* arrays it was called with so far (snapshots)
    validatableInput,         \* the argument of the last call of validate
    isValid                   \* what that call returned

storeVars == <<instance, stores, handles>>

domVars == <<document, hostChildren, hostAfter, submitListener, ulId, heading>>

inputVars == <<titleInputElement, descriptionInputElement, peopleInputElement>>

viewVars == <<assignedProjects, listEl>>

validateVars == <<validatableInput, isValid>>

vars == <<instance, stores, handles, pc, document, hostChildren, hostAfter,
          submitListener, titleInputElement, descriptionInputElement,
          peopleInputElement, ulId, heading, assignedProjects, listEl,
          calls, addCalls, lastOp, received, validatableInput, isValid>>

\* the module constant projectState
projectState == handles[1]

\* the values the three input fields hold
Inputs == <<titleInputElement, descriptionInputElement, peopleInputElement>>

Op(name, store) ==
    [op |-> name, store |-> store, alert |-> FALSE, threw |-> FALSE,
     entered |-> <<>>, receiver |-> "none", this |-> "none",
     listener |-> "none"]

----------------------------------------------------------------------------
(* State<T> and ProjectState *)

\* class Project
Project(id, title, description, people, status) ==
    [id |-> id, title |-> title, description |-> description,
     people |-> people, status |-> status]

\* new ProjectState(): no projects, no listeners
NewProjectState == [projects |-> <<>>, listeners |-> <<>>]

\* the body of getInstance on the static field inst and the objects objs:
\* the instance returned, the static field and the objects afterwards
getInstance(inst, objs) ==
    IF inst # Undefined
    THEN [result |-> The(inst), instance |-> inst, stores |-> objs]
    ELSE [result |-> Len(objs) + 1, instance |-> inst,
          stores |-> Append(objs, NewProjectState)]

\* an addListener that keeps only the callback just registered
addListenerOnly(store, listenerFn) ==
    [store EXCEPT !.listeners = <<listenerFn>>]

\* State.addListener
addListener(store, listenerFn) ==
    [store EXCEPT !.listeners = Append(@, listenerFn)]

\* a slice() that hands out the store's own array object
SliceLive(projects) == [live |-> TRUE, items |-> projects]

\* Array.prototype.slice(): a new array with the same elements.  live tells
\* whether the array handed out is the store's own array object
Slice(projects) == [live |-> FALSE, items |-> projects]

Reverse(s) == [i \in 1..Len(s) |-> s[Len(s) + 1 - i]]

\* what a test listener does to the array it received
TestListener(fn, items) ==
    CASE fn = "push" -> Append(items, items[1])
      [] fn = "pop" -> SubSeq(items, 1, Len(items) - 1)
      [] fn = "reverse" -> Reverse(items)
      [] OTHER -> items

----------------------------------------------------------------------------
(* ProjectList *)

ElementId(type) == type \o "-projects"

ListId(type) == type \o "-project-list"

\* the filter of the listener registered by ProjectList.configure
FilterProjects(type, projects) ==
    SelectSeq(projects,
              LAMBDA p : IF type = "active"
                         THEN p.status = ProjectStatus.active
                         ELSE p.status = ProjectStatus.finished)

\* the items are left in place
KeepItems(items) == items

\* listEl.innerHTML = ''
ClearItems(items) == <<>>

\* one <li> per assigned project, appended in order
AppendItems(items, assigned) ==
    items \o [i \in 1..Len(assigned) |-> assigned[i].title]

\* ProjectList.renderProjects of the view of category type.  w is the state
\* being changed by the running handler, env the part of the state it reads
renderProjects(type, w, env) ==
    LET found == {u \in ListTypes : env.ulId[u] = Some(ListId(type))
                                     /\ env.inDocument[u]}
    IN  IF found = {}
        THEN [w EXCEPT !.threw = TRUE]
        ELSE [w EXCEPT !.listEl[The(found)] =
                 AppendItems(ClearItems(@), w.assignedProjects[type])]

\* the listener registered by ProjectList.configure
ViewListener(type, projects, w, env) ==
    renderProjects(type,
                   [w EXCEPT !.assignedProjects[type] =
                                 FilterProjects(type, projects)],
                   env)

----------------------------------------------------------------------------
(* ProjectState.addProject *)

\* one call listenerFn(arg): the call is logged with the sequence received
\* and the values the input fields hold at that moment; a change a listener
\* makes to the array it received reaches the store only if that array is
\* the store's own
CallListener(fn, arg, w, env) ==
    LET logged == [w EXCEPT !.calls =
                      Append(@, [fn |-> fn, items |-> arg.items,
                                 inputs |-> env.inputs])]
    IN  IF fn \in ListTypes
        THEN ViewListener(fn, arg.items, logged, env)
        ELSE IF arg.live
        THEN [logged EXCEPT !.projects = TestListener(fn, arg.items)]
        ELSE logged

\* a notification loop over a set of listeners: a callback that was already
\* called in this loop is not called again
RECURSIVE NotifyOnce(_, _, _, _)
NotifyOnce(listeners, i, w, env) ==
    IF i > Len(listeners) \/ w.threw THEN w
    ELSE NotifyOnce(listeners, i + 1,
                    IF \E j \in 1..(i - 1) : listeners[j] = listeners[i]
                    THEN w
                    ELSE CallListener(listeners[i], Slice(w.projects), w, env),
                    env)

\* for (const listenerFn of this.listeners) listenerFn(this.projects.slice())
RECURSIVE NotifyFrom(_, _, _, _)
NotifyFrom(listeners, i, w, env) ==
    IF i > Len(listeners) \/ w.threw THEN w
    ELSE NotifyFrom(listeners, i + 1,
                    CallListener(listeners[i], Slice(w.projects), w, env), env)

\* this.projects.unshift(newProject)
Unshift(projects, newProject) == <<newProject>> \o projects

\* this.projects.push(newProject)
Push(projects, newProject) == Append(projects, newProject)

\* an addProject that calls the listeners before it appends the project
addProjectNotifyFirst(store, title, description, numOfPeople, id, w, env) ==
    [NotifyFrom(store.listeners, 1,
                [w EXCEPT !.projects = store.projects], env)
       EXCEPT !.projects =
           Push(@, Project(id, title, description, numOfPeople,
                           ProjectStatus.active))]

\* ProjectState.addProject on the store object store; id is the string
\* Math.random().toString() returned
addProject(store, title, description, numOfPeople, id, w, env) ==
    LET newProject == Project(id, title, description, numOfPeople,
                              ProjectStatus.active)
    IN  NotifyFrom(store.listeners, 1,
                   [w EXCEPT !.projects = Push(store.projects, newProject)],
                   env)

\* the state a handler changes, before it runs
World ==
    [projects |-> <<>>, assignedProjects |-> assignedProjects,
     listEl |-> listEl, calls |-> <<>>, threw |-> FALSE]

\* the state a handler reads: the list containers and the input fields
Env(inputs) ==
    [ulId |-> ulId,
     inDocument |-> [u \in ListTypes |->
                        \/ \E i \in 1..Len(hostAfter) :
                              hostAfter[i] = ElementId(u)
                        \/ \E i \in 1..Len(hostChildren) :
                              hostChildren[i] = ElementId(u)],
     inputs |-> inputs]

TotalProjects ==
    LET RECURSIVE Sum(_)
        Sum(i) == IF i = 0 THEN 0 ELSE Len(stores[i].projects) + Sum(i - 1)
    IN  Sum(Len(stores))

TotalTestListeners ==
    LET RECURSIVE Sum(_)
        Sum(i) == IF i = 0 THEN 0
                  ELSE Len(SelectSeq(stores[i].listeners,
                                     LAMBDA f : f \in TestListeners))
                       + Sum(i - 1)
    IN  Sum(Len(stores))

----------------------------------------------------------------------------
(* Component *)

\* Element.insertAdjacentElement on the host #app: "afterbegin" and
\* "beforeend" place the element among the host's children, "afterend"
\* right after the host
insertAdjacentElement(where, element, dom) ==
    CASE where = "afterbegin" ->
            [dom EXCEPT !.children = <<element>> \o @]
      [] where = "beforeend" ->
            [dom EXCEPT !.children = Append(@, element)]
      [] where = "afterend" ->
            [dom EXCEPT !.after = <<element>> \o @]

\* Component.attach
attach(atStart, element, dom) ==
    LET where == IF atStart THEN "beforeend" ELSE "afterend"
    IN  insertAdjacentElement(where, element, dom)

\* a constructor that attaches without looking anything up
ComponentUnchecked(templateId, hostElementId, atStart, newElementId, doc, dom) ==
    attach(atStart, newElementId, dom)

\* the Component constructor: the template and the host are looked up, the
\* new element gets its id and is attached.  With the template missing
\* this.templateElement.content throws, with the host missing
\* this.hostElement.insertAdjacentElement throws: nothing is attached
Component(templateId, hostElementId, atStart, newElementId, doc, dom) ==
    IF templateId \notin doc.templates \/ hostElementId \notin doc.elements
    THEN [dom EXCEPT !.threw = TRUE]
    ELSE attach(atStart, newElementId, dom)

Dom == [children |-> hostChildren, after |-> hostAfter, threw |-> FALSE]

ToUpperCase(type) == IF type = "active" THEN "ACTIVE" ELSE "FINISHED"

----------------------------------------------------------------------------
(* ProjectInput *)

\* the bounds of the people rule
MinPeople == 1

MaxPeople == 9

\* ProjectInput.garherUserInput on the values of the three fields: whether
\* the alert is shown, and the tuple returned (Undefined for void)
garherUserInput(inputs) ==
    LET enteredTitle == inputs[1]
        enteredDescription == inputs[2]
        enteredPeople == inputs[3]
        titleValidatable ==
            Validatable(Str(enteredTitle), TRUE,
                        Undefined, Undefined, Undefined, Undefined)
        descValidatable ==
            Validatable(Str(enteredDescription), TRUE,
                        Undefined, Undefined, Undefined, Undefined)
        peopleValidatable ==
            Validatable(NumVal(ToNumber(enteredPeople)), TRUE,
                        Undefined, Undefined, Some(MinPeople), Some(MaxPeople))
    IN  IF \/ ~validate(titleValidatable)
           \/ ~validate(descValidatable)
           \/ ~validate(peopleValidatable)
        THEN [alert |-> TRUE, userInput |-> Undefined]
        ELSE [alert |-> FALSE,
              userInput |-> Some(<<enteredTitle, enteredDescription,
                                   ToNumber(enteredPeople)>>)]

\* ProjectInput.clearInputs
clearInputs(inputs) == <<<<>>, <<>>, <<>>>>

\* the handler after garherUserInput returned g: addProject and clearInputs
\* if g holds a tuple, nothing otherwise
AfterAddProject(w, g, inputs) ==
    [projects |-> w.projects, assignedProjects |-> w.assignedProjects,
     listEl |-> w.listEl, calls |-> w.calls, threw |-> w.threw,
     alert |-> g.alert, added |-> TRUE, userInput |-> g.userInput,
     inputs |-> IF w.threw THEN inputs ELSE clearInputs(inputs)]

\* the handler clearing the fields whether or not a tuple was returned
AfterGatherClear(g, inputs, store, id) ==
    IF g.userInput # Undefined
    THEN AfterAddProject(
             addProject(store, The(g.userInput)[1], The(g.userInput)[2],
                        The(g.userInput)[3], id,
                        [World EXCEPT !.projects = store.projects],
                        Env(inputs)),
             g, inputs)
    ELSE [projects |-> store.projects, assignedProjects |-> assignedProjects,
          listEl |-> listEl, calls |-> <<>>, threw |-> FALSE,
          alert |-> g.alert, added |-> FALSE, userInput |-> g.userInput,
          inputs |-> clearInputs(inputs)]

\* the handler clearing the fields before it calls addProject
AfterGatherClearFirst(g, inputs, store, id) ==
    IF g.userInput # Undefined
    THEN AfterAddProject(
             addProject(store, The(g.userInput)[1], The(g.userInput)[2],
                        The(g.userInput)[3], id,
                        [World EXCEPT !.projects = store.projects],
                        Env(clearInputs(inputs))),
             g, inputs)
    ELSE [projects |-> store.projects, assignedProjects |-> assignedProjects,
          listEl |-> listEl, calls |-> <<>>, threw |-> FALSE,
          alert |-> g.alert, added |-> FALSE, userInput |-> g.userInput,
          inputs |-> inputs]

AfterGather(g, inputs, store, id) ==
    IF g.userInput # Undefined
    THEN AfterAddProject(
             addProject(store, The(g.userInput)[1], The(g.userInput)[2],
                        The(g.userInput)[3], id,
                        [World EXCEPT !.projects = store.projects],
                        Env(inputs)),
             g, inputs)
    ELSE [projects |-> store.projects, assignedProjects |-> assignedProjects,
          listEl |-> listEl, calls |-> <<>>, threw |-> FALSE,
          alert |-> g.alert, added |-> FALSE, userInput |-> g.userInput,
          inputs |-> inputs]

\* a submit handler left as it was declared: its receiver is whatever the
\* caller supplies
Unbound(method, self) == [method |-> method, boundThis |-> Undefined]

\* the autobind decorator: reading the method from the object self gives
\* the method bound to self
autobind(method, self) == [method |-> method, boundThis |-> Some(self)]

\* the receiver a listener runs with when it is called with receiver
ThisOf(listener, receiver) ==
    IF listener.boundThis # Undefined THEN The(listener.boundThis)
                                      ELSE receiver

\* the ProjectInput object, and what may call its submit listener: the form
\* element dispatching the event, or a plain call without receiver
prjInput == "prjInput"

FormElement == "user-input"

Receivers == {FormElement, "undefined"}

\* the store submitHandler adds to
LatestInstance == handles[Len(handles)]

submitStore == projectState

\* the handler called with a receiver that is not a ProjectInput:
\* this.garherUserInput is not a function
NotAProjectInput(inputs, store) ==
    [projects |-> store.projects, assignedProjects |-> assignedProjects,
     listEl |-> listEl, calls |-> <<>>, threw |-> TRUE, alert |-> FALSE,
     added |-> FALSE, userInput |-> Undefined, inputs |-> inputs]

\* ProjectInput.submitHandler with the fields holding inputs, on the store
\* object store; id is what Math.random().toString() returns if it is
\* called.  The result is the state the handler leaves: the store's
\* projects, the views, the listener calls, the fields and the alert
submitHandler(inputs, store, id) ==
    AfterGather(garherUserInput(inputs), inputs, store, id)

----------------------------------------------------------------------------
(* What each listener has been called with *)

\* a listener is registered on store s
Registered(rec, s, projects) ==
    [rec EXCEPT ![s] = Append(@, [since |-> Len(projects),
                                  snapshots |-> <<>>])]

\* the listeners of store s were called in registration order as cs records
Delivered(rec, s, cs) ==
    [rec EXCEPT ![s] =
        [i \in DOMAIN @ |->
            IF i <= Len(cs)
            THEN [@[i] EXCEPT !.snapshots = Append(@, cs[i].items)]
            ELSE @[i]]]

\* the status of the i-th project of store s was set: the arrays received
\* hold the same Project objects, so they show the new status as well
StatusSeen(rec, s, i, status) ==
    [rec EXCEPT ![s] =
        [k \in DOMAIN rec[s] |->
            [since |-> rec[s][k].since,
             snapshots |->
                [n \in DOMAIN rec[s][k].snapshots |->
                    [j \in DOMAIN rec[s][k].snapshots[n] |->
                        IF j = i
                        THEN [rec[s][k].snapshots[n][j]
                                EXCEPT !.status = status]
                        ELSE rec[s][k].snapshots[n][j]]]]]]

----------------------------------------------------------------------------
(* Initial state: the state after the statement                            *)
(*   const projectState = ProjectState.getInstance()                       *)
(* on one of the pages docs, the host element holding one of contents if   *)
(* the page has it; no view exists yet                                     *)

InitOn(docs, contents) ==
    \E g \in {getInstance(Undefined, <<>>)} :
        /\ instance = g.instance
        /\ stores = g.stores
        /\ handles = <<g.result>>
        /\ pc = "input"
        /\ document \in docs
        /\ hostChildren \in IF "app" \in document.elements
                            THEN contents ELSE {<<>>}
        /\ hostAfter = <<>>
        /\ submitListener = Undefined
        /\ received = [i \in 1..Len(g.stores) |-> <<>>]
        /\ validatableInput = Undefined
        /\ isValid = TRUE
        /\ titleInputElement = <<>>
        /\ descriptionInputElement = <<>>
        /\ peopleInputElement = <<>>
        /\ ulId = [u \in ListTypes |-> Undefined]
        /\ heading = [u \in ListTypes |-> ""]
        /\ assignedProjects = [u \in ListTypes |-> <<>>]
        /\ listEl = [u \in ListTypes |-> <<>>]
        /\ calls = <<>>
        /\ addCalls = [i \in 1..Len(g.stores) |-> <<>>]
        /\ lastOp = Op("getInstance", g.result)

\* the script loaded by the complete page, its host element empty
Init == InitOn({CompletePage}, {<<>>})

\* the script loaded by any page: a template or the host element may be
\* missing, the host element may already have content
InitAnyPage == InitOn(Documents, HostContents)

----------------------------------------------------------------------------
(* Startup: the three module-level constructor calls, in program order *)

\* const prjInput = new ProjectInput(): the Component constructor, then
\* configure(), which registers this.submitHandler as the submit listener.
\* An exception of the constructor ends the script
NewProjectInput ==
    /\ pc = "input"
    /\ \E dom \in {Component("project-input", "app", TRUE, "user-input",
                               document, Dom)} :
          /\ hostChildren' = dom.children
          /\ hostAfter' = dom.after
          /\ submitListener' = IF dom.threw THEN submitListener
                               ELSE Some(autobind("submitHandler", prjInput))
          /\ pc' = IF dom.threw THEN "failed" ELSE "active"
          /\ lastOp' = [Op("newProjectInput", projectState)
                          EXCEPT !.threw = dom.threw]
    /\ calls' = <<>>
    /\ UNCHANGED <<validateVars, received, storeVars, document, inputVars, viewVars, ulId, heading,
                   addCalls>>

\* a renderContent that names nothing
SkipRenderContent(type, ids) == ids

\* ProjectList.renderContent: the <ul> gets its id (the heading is set by
\* the constructor action below)
renderContent(type, ids) == [ids EXCEPT ![type] = Some(ListId(type))]

\* new ProjectList(type): the Component constructor, then configure(), then
\* renderContent().  An exception of the constructor ends the script
NewProjectList(type) ==
    /\ pc = type
    /\ \E dom \in {Component("project-list", "app", FALSE, ElementId(type),
                               document, Dom)} :
          /\ hostChildren' = dom.children
          /\ hostAfter' = dom.after
          /\ stores' = IF dom.threw THEN stores
                       ELSE [stores EXCEPT
                               ![projectState] = addListener(@, type)]
          /\ ulId' = IF dom.threw THEN ulId ELSE renderContent(type, ulId)
          /\ heading' = IF dom.threw THEN heading
                        ELSE [heading EXCEPT
                                ![type] = ToUpperCase(type) \o " PROJECTS"]
          /\ pc' = IF dom.threw THEN "failed"
                   ELSE IF type = "active" THEN "finished" ELSE "ready"
          /\ lastOp' = [Op("newProjectList", projectState)
                          EXCEPT !.threw = dom.threw]
    /\ assignedProjects' = [assignedProjects EXCEPT ![type] = <<>>]
    /\ calls' = <<>>
    /\ received' = IF lastOp'.threw THEN received
                   ELSE Registered(received, projectState,
                                   stores[projectState].projects)
    /\ UNCHANGED <<validateVars, instance, handles, document, submitListener, inputVars,
                   listEl, addCalls>>

Startup == NewProjectInput \/ \E type \in ListTypes : NewProjectList(type)

----------------------------------------------------------------------------
(* The user: typing into a field, submitting the form.  Events are handled *)
(* once the script has run to its end or has been ended by an exception,   *)
(* and only if the form is on the page                                     *)

ScriptEnded == pc \in {"ready", "failed"}

TypeTitle(v) ==
    /\ ScriptEnded
    /\ submitListener # Undefined
    /\ titleInputElement' = v
    /\ calls' = <<>>
    /\ lastOp' = Op("input", projectState)
    /\ UNCHANGED <<validateVars, received, storeVars, pc, domVars, descriptionInputElement,
                   peopleInputElement, viewVars, addCalls>>

TypeDescription(v) ==
    /\ ScriptEnded
    /\ submitListener # Undefined
    /\ descriptionInputElement' = v
    /\ calls' = <<>>
    /\ lastOp' = Op("input", projectState)
    /\ UNCHANGED <<validateVars, received, storeVars, pc, domVars, titleInputElement,
                   peopleInputElement, viewVars, addCalls>>

TypePeople(v) ==
    /\ ScriptEnded
    /\ submitListener # Undefined
    /\ peopleInputElement' = v
    /\ calls' = <<>>
    /\ lastOp' = Op("input", projectState)
    /\ UNCHANGED <<validateVars, received, storeVars, pc, domVars, titleInputElement,
                   descriptionInputElement, viewVars, addCalls>>

\* the submit event: the registered listener is called with receiver and
\* runs to completion
Submit(id, receiver) ==
    /\ ScriptEnded
    /\ submitListener # Undefined
    /\ \E self \in {ThisOf(The(submitListener), receiver)} :
       \E r \in {IF self = prjInput
                 THEN submitHandler(Inputs, stores[submitStore], id)
                 ELSE NotAProjectInput(Inputs, stores[submitStore])} :
          /\ r.added => TotalProjects < MaxProjects
          /\ stores' = [stores EXCEPT ![submitStore].projects = r.projects]
          /\ assignedProjects' = r.assignedProjects
          /\ listEl' = r.listEl
          /\ calls' = r.calls
          /\ addCalls' = IF r.added
                         THEN [addCalls EXCEPT ![submitStore] =
                                  Append(@, The(r.userInput))]
                         ELSE addCalls
          /\ titleInputElement' = r.inputs[1]
          /\ descriptionInputElement' = r.inputs[2]
          /\ peopleInputElement' = r.inputs[3]
          /\ lastOp' = [op |-> "submit", store |-> submitStore,
                        alert |-> r.alert, threw |-> r.threw,
                        entered |-> Inputs, receiver |-> receiver,
                        this |-> self, listener |-> "none"]
    /\ received' = Delivered(received, submitStore, calls')
    /\ UNCHANGED <<validateVars, instance, handles, pc, domVars>>

----------------------------------------------------------------------------
(* Direct use of the store, as by a test or another module *)

\* ProjectState.getInstance()
GetInstance ==
    /\ pc = "ready"
    /\ Len(handles) < MaxInstances
    /\ \E g \in {getInstance(instance, stores)} :
          /\ instance' = g.instance
          /\ stores' = g.stores
          /\ handles' = Append(handles, g.result)
          /\ addCalls' = [i \in 1..Len(g.stores) |->
                            IF i <= Len(addCalls) THEN addCalls[i] ELSE <<>>]
          /\ lastOp' = Op("getInstance", g.result)
    /\ calls' = <<>>
    /\ received' = [i \in 1..Len(stores') |->
                      IF i <= Len(received) THEN received[i] ELSE <<>>]
    /\ UNCHANGED <<validateVars, pc, domVars, inputVars, viewVars>>

\* handles[h].addListener(fn)
AddListener(h, fn) ==
    /\ pc = "ready"
    /\ TotalTestListeners < MaxListeners
    /\ stores' = [stores EXCEPT ![handles[h]] = addListener(@, fn)]
    /\ calls' = <<>>
    /\ lastOp' = [Op("addListener", handles[h]) EXCEPT !.listener = fn]
    /\ received' = Registered(received, handles[h],
                              stores[handles[h]].projects)
    /\ UNCHANGED <<validateVars, instance, handles, pc, domVars, inputVars, viewVars,
                   addCalls>>

\* handles[h].addProject(a.title, a.description, a.people)
AddProject(h, a, id) ==
    /\ pc = "ready"
    /\ TotalProjects < MaxProjects
    /\ \E w \in {addProject(stores[handles[h]], a.title, a.description,
                             a.people, id,
                             [World EXCEPT
                                !.projects = stores[handles[h]].projects],
                             Env(Inputs))} :
          /\ stores' = [stores EXCEPT ![handles[h]].projects = w.projects]
          /\ assignedProjects' = w.assignedProjects
          /\ listEl' = w.listEl
          /\ calls' = w.calls
          /\ addCalls' = [addCalls EXCEPT ![handles[h]] =
                             Append(@, <<a.title, a.description, a.people>>)]
          /\ lastOp' = [Op("addProject", handles[h]) EXCEPT !.threw = w.threw]
    /\ received' = Delivered(received, handles[h], calls')
    /\ UNCHANGED <<validateVars, instance, handles, pc, domVars, inputVars>>

\* code holding a Project received in a snapshot assigns its public status
\* field: the array is copied by slice(), the Project objects are shared
MarkFinished(s, i) ==
    /\ pc = "ready"
    /\ stores[s].projects[i].status = ProjectStatus.active
    /\ stores' = [stores EXCEPT
                    ![s].projects[i].status = ProjectStatus.finished]
    /\ calls' = <<>>
    /\ lastOp' = Op("setStatus", s)
    /\ received' = StatusSeen(received, s, i, ProjectStatus.finished)
    /\ UNCHANGED <<validateVars, instance, handles, pc, domVars, inputVars, viewVars,
                   addCalls>>

\* validate(v) called directly
Validate(v) ==
    /\ validatableInput' = Some(v)
    /\ isValid' = validate(v)
    /\ calls' = <<>>
    /\ lastOp' = Op("validate", projectState)
    /\ UNCHANGED <<storeVars, pc, domVars, inputVars, viewVars, addCalls,
                   received>>

----------------------------------------------------------------------------
(* Specifications *)

\* the application: startup, then the user types and submits
Next ==
    \/ Startup
    \/ \E v \in TitleInputs : TypeTitle(v)
    \/ \E v \in DescriptionInputs : TypeDescription(v)
    \/ \E v \in PeopleInputs : TypePeople(v)
    \/ \E id \in RandomIds : Submit(id, FormElement)

Spec == Init /\ [][Next]_vars

\* the script on any page, the form's listener called by anyone, while
\* other code calls getInstance: a few values are typed, the listener is
\* called with either receiver
FormTitles == {<<>>, <<"a">>}

FormPeople == {<<"0">>, <<"1">>}

NextForm ==
    \/ Startup
    \/ \E v \in FormTitles : TypeTitle(v)
    \/ TypeDescription(<<"x">>)
    \/ \E v \in FormPeople : TypePeople(v)
    \/ \E id \in RandomIds, receiver \in Receivers : Submit(id, receiver)
    \/ GetInstance

SpecForm == InitAnyPage /\ [][NextForm]_vars

\* validate as a function: it is applied to every argument of Validatables
NextValidate == \E v \in Validatables : Validate(v)

SpecValidate == Init /\ [][NextValidate]_vars

\* the store used directly: listeners of any kind are registered on
\* projectState and projects are added to it
NextStore ==
    \/ Startup
    \/ \E fn \in TestListeners : AddListener(1, fn)
    \/ \E a \in ProjectArgs, id \in RandomIds : AddProject(1, a, id)

SpecStore == Init /\ [][NextStore]_vars

\* getInstance is called again and its results are used
NextInstances ==
    \/ Startup
    \/ GetInstance
    \/ \E h \in DOMAIN handles : AddListener(h, "record")
    \/ \E h \in DOMAIN handles, id \in RandomIds :
          AddProject(h, CHOOSE a \in ProjectArgs : a.title = <<"a">>, id)

SpecInstances == Init /\ [][NextInstances]_vars

\* the store used directly, with projects being marked finished; the
\* listeners registered beside the views are one that reads the array it
\* receives and one that changes it
ViewTestListeners == {"record", "reverse"}

NextViews ==
    \/ Startup
    \/ \E fn \in ViewTestListeners : AddListener(1, fn)
    \/ \E a \in ProjectArgs, id \in RandomIds : AddProject(1, a, id)
    \/ \E s \in DOMAIN stores :
          \E i \in DOMAIN stores[s].projects : MarkFinished(s, i)

SpecViews == Init /\ [][NextViews]_vars

----------------------------------------------------------------------------
(* Properties of the store *)

Mutators == {"push", "pop", "reverse"}

\* C1: every call of addProject invokes each registered listener exactly
\* once, in registration order (a callback registered twice is invoked
\* twice), and all of them receive the same sequence: the store's full
\* current project sequence.
C1_FanOut ==
    lastOp.op = "addProject" =>
        /\ [i \in 1..Len(calls) |-> calls[i].fn]
             = stores[lastOp.store].listeners
        /\ \A i \in 1..Len(calls) :
              /\ calls[i].items = stores[lastOp.store].projects
              /\ calls[i].items = calls[1].items

\* an addProject has just notified four listeners, the last two being the
\* same callback registered twice
C1_Witness ==
    /\ lastOp.op = "addProject"
    /\ Len(calls) = 4
    /\ calls[3].fn = "record"
    /\ calls[4].fn = "record"
    /\ Len(calls[4].items) = 2

\* C2: a listener receives a copy of the store's sequence: whatever a
\* listener appends to, removes from or reorders in the sequence it
\* received, addProject leaves the store's sequence as the old sequence plus
\* the new project, and every listener, also one notified after a listener
\* that changed its copy, receives exactly that sequence.
C2_SnapshotIsCopy ==
    [][lastOp'.op = "addProject" =>
          LET s == lastOp'.store
              old == stores[s].projects
              new == stores'[s].projects
          IN  /\ Len(new) = Len(old) + 1
              /\ SubSeq(new, 1, Len(old)) = old
              /\ \A i \in 1..Len(calls') :
                    calls'[i].items = Append(old, new[Len(new)])]_vars

\* a listener that changes the sequence it received was notified, and
\* another listener after it, in an addProject on a store that already held
\* a project
C2_Witness ==
    /\ lastOp.op = "addProject"
    /\ \E i, j \in 1..Len(calls) : i < j /\ calls[i].fn \in Mutators
    /\ Len(stores[lastOp.store].projects) = 2

\* C3: after N calls of addProject on a store, its sequence holds exactly N
\* projects, the i-th carrying the arguments of the i-th call, each with
\* status Active; and no step removes, reorders or replaces a project that
\* is already in a sequence.
C3_AppendOnly ==
    /\ [](\A s \in 1..Len(stores) :
             /\ Len(stores[s].projects) = Len(addCalls[s])
             /\ \A i \in 1..Len(stores[s].projects) :
                   /\ stores[s].projects[i].title = addCalls[s][i][1]
                   /\ stores[s].projects[i].description = addCalls[s][i][2]
                   /\ stores[s].projects[i].people = addCalls[s][i][3]
                   /\ stores[s].projects[i].status = ProjectStatus.active)
    /\ [][\A s \in 1..Len(stores) :
             /\ Len(stores'[s].projects) >= Len(stores[s].projects)
             /\ SubSeq(stores'[s].projects, 1, Len(stores[s].projects))
                  = stores[s].projects]_vars

\* two addProject calls with different arguments were made on projectState
C3_Witness ==
    /\ Len(addCalls[projectState]) = 2
    /\ addCalls[projectState][1] # addCalls[projectState][2]
    /\ Len(stores[projectState].projects) = 2

\* C4: no two projects of a store's sequence have the same id.
C4_DistinctIds ==
    \A s \in 1..Len(stores) :
       \A i, j \in 1..Len(stores[s].projects) :
          i # j => stores[s].projects[i].id # stores[s].projects[j].id

\* C5: every call of getInstance returns the same instance.
C5_Singleton ==
    \A i \in 1..Len(handles) : handles[i] = handles[1]

----------------------------------------------------------------------------
(* Properties of the form *)

\* the rules of the form, stated on the text of the fields: a title and a
\* description with a character that is not white space, and a people
\* field that reads as a number from 1 to 9
NonBlank(text) == \E i \in 1..Len(text) : text[i] \notin WhiteSpace

PeopleInRange(text) ==
    /\ ~ToNumber(text).nan
    /\ ToNumber(text).num >= 1 * ToNumber(text).den
    /\ ToNumber(text).num <= 9 * ToNumber(text).den

Acceptable(inputs) ==
    NonBlank(inputs[1]) /\ NonBlank(inputs[2]) /\ PeopleInRange(inputs[3])

Cleared == <<<<>>, <<>>, <<>>>>

\* C6: a submit that fails validation shows the alert, calls neither
\* addProject nor any listener, and leaves the store, the list views and
\* the three input fields as they were.
C6_RejectedSubmit ==
    [][(lastOp'.op = "submit" /\ ~Acceptable(Inputs)) =>
          /\ lastOp'.alert
          /\ calls' = <<>>
          /\ addCalls' = addCalls
          /\ stores' = stores
          /\ listEl' = listEl
          /\ Inputs' = Inputs]_vars

\* a submit with an empty title, a description and a people count in range
\* was rejected while the store held a project and the fields were not empty
C6_Witness ==
    /\ lastOp.op = "submit"
    /\ lastOp.alert
    /\ lastOp.entered = << <<>>, <<"x">>, <<"1">> >>
    /\ Inputs = lastOp.entered
    /\ Len(stores[projectState].projects) = 1

\* C7: a submit that passes validation shows no alert, appends exactly one
\* project carrying the submitted title, description and people count, the
\* active list (both list views having been constructed) then shows the new
\* title and the finished list nothing, and the three fields are empty
\* afterwards, having still held the submitted values while every listener
\* ran.
C7_AcceptedSubmit ==
    [][(lastOp'.op = "submit" /\ Acceptable(Inputs)) =>
          LET old == stores[projectState].projects
              new == stores'[projectState].projects
          IN  /\ ~lastOp'.alert
              /\ new = Append(old, Project(new[Len(new)].id, Inputs[1],
                                           Inputs[2], ToNumber(Inputs[3]),
                                           ProjectStatus.active))
              /\ pc = "ready" =>
                    /\ listEl'["active"] = Append(listEl["active"], Inputs[1])
                    /\ Len(calls') = 2
              /\ listEl'["finished"] = <<>>
              /\ \A i \in 1..Len(calls') : calls'[i].inputs = Inputs
              /\ Inputs' = Cleared]_vars

\* a second submit was accepted: the active list shows both titles and the
\* fields are empty
C7_Witness ==
    /\ lastOp.op = "submit"
    /\ ~lastOp.alert
    /\ lastOp.entered = << <<"b">>, <<"x">>, <<"9">> >>
    /\ listEl["active"] = << <<"a">>, <<"b">> >>
    /\ Inputs = Cleared

\* C8: with a valid title and description, a submit with people "9" or "1"
\* adds one project, and a submit with people "10", "0", "" or "a" shows
\* the alert and adds none.
C8_PeopleBoundary ==
    [][(lastOp'.op = "submit" /\ NonBlank(Inputs[1]) /\ NonBlank(Inputs[2])) =>
          LET old == stores[projectState].projects
              new == stores'[projectState].projects
          IN  /\ Inputs[3] \in {<<"9">>, <<"1">>} =>
                    ~lastOp'.alert /\ Len(new) = Len(old) + 1
              /\ Inputs[3] \in {<<"1", "0">>, <<"0">>, <<>>, <<"a">>} =>
                    lastOp'.alert /\ Len(new) = Len(old)]_vars

\* a submit with people "10" was rejected after one with people "9" was
\* accepted
C8_Witness ==
    /\ lastOp.op = "submit"
    /\ lastOp.alert
    /\ lastOp.entered[3] = <<"1", "0">>
    /\ NonBlank(lastOp.entered[1])
    /\ NonBlank(lastOp.entered[2])
    /\ Len(stores[projectState].projects) = 1
    /\ stores[projectState].projects[1].people = Num(9)

\* C9: every project in the store has a non-empty title, a non-empty
\* description and a people count that is an integer between 1 and 9.
C9_ValidProjects ==
    \A i \in 1..Len(stores[projectState].projects) :
       LET p == stores[projectState].projects[i]
       IN  /\ p.title # <<>>
           /\ p.description # <<>>
           /\ ~p.people.nan
           /\ p.people.den = 1
           /\ p.people.num \in 1..9

----------------------------------------------------------------------------
(* Properties of the list views *)

Titles(projects) == [i \in 1..Len(projects) |-> projects[i].title]

\* the status a list view of category type shows
StatusOf(type) ==
    IF type = "active" THEN ProjectStatus.active ELSE ProjectStatus.finished

\* C10: after a notification, each list view shows exactly the titles of
\* the projects of the snapshot it received whose status is the one of its
\* category, once each and in the snapshot's order.
C10_RenderedLists ==
    (lastOp.op = "addProject" /\ lastOp.store = projectState) =>
        \A type \in ListTypes :
           \E i \in 1..Len(calls) :
              /\ calls[i].fn = type
              /\ listEl[type] =
                    Titles(SelectSeq(calls[i].items,
                                     LAMBDA p : p.status = StatusOf(type)))

\* the views were notified with one finished and one active project: the
\* finished list shows the project the active list showed before
C10_Witness ==
    /\ lastOp.op = "addProject"
    /\ lastOp.store = projectState
    /\ listEl["finished"] = << <<"a">> >>
    /\ listEl["active"] = << <<"b">> >>

(***************************************************************************)
(* Mounting the views                                                      *)
(***************************************************************************)

FormRoot == "user-input"

FormConstructed == submitListener # Undefined

ListConstructed(type) == ulId[type] # Undefined

Count(seq, e) == Cardinality({i \in DOMAIN seq : seq[i] = e})

\* C11: each constructed view's root is a child of the host exactly once;
\* the form's root, inserted at the start, is the host's first child, before
\* the content the host already had, and a list view's root, inserted at
\* the end, comes after that content; the root of a view not constructed is
\* nowhere.
C11_AttachPlacement ==
    /\ FormConstructed =>
          /\ Count(hostChildren, FormRoot) = 1
          /\ Count(hostAfter, FormRoot) = 0
          /\ hostChildren[1] = FormRoot
    /\ ~FormConstructed =>
          Count(hostChildren, FormRoot) + Count(hostAfter, FormRoot) = 0
    /\ \A type \in ListTypes :
          IF ListConstructed(type)
          THEN /\ Count(hostChildren, ElementId(type)) = 1
               /\ Count(hostAfter, ElementId(type)) = 0
               /\ \A i, j \in DOMAIN hostChildren :
                     (hostChildren[i] \in {"content", FormRoot}
                        /\ hostChildren[j] = ElementId(type)) => i < j
          ELSE Count(hostChildren, ElementId(type))
                 + Count(hostAfter, ElementId(type)) = 0

InputResolved ==
    "project-input" \in document.templates /\ "app" \in document.elements

ListResolved ==
    "project-list" \in document.templates /\ "app" \in document.elements

NoListView ==
    /\ stores[projectState].listeners = <<>>
    /\ \A type \in ListTypes :
          /\ ~ListConstructed(type)
          /\ Count(hostChildren, ElementId(type))
                + Count(hostAfter, ElementId(type)) = 0

\* C16: when the template or the host of a view cannot be found, its
\* construction ends the script: the form then has no submit handler and no
\* root on the page, a list view has no listener in the store and no root
\* on the page, and no view that the script would have constructed later
\* exists; the script fails in no other case.
C16_FatalMount ==
    /\ ~InputResolved =>
          /\ pc \in {"input", "failed"}
          /\ ~FormConstructed
          /\ Count(hostChildren, FormRoot) + Count(hostAfter, FormRoot) = 0
          /\ NoListView
    /\ ~ListResolved =>
          /\ pc \in {"input", "active", "failed"}
          /\ NoListView
    /\ pc = "failed" =>
          /\ ~(InputResolved /\ ListResolved)
          /\ FormConstructed <=> InputResolved

\* the form was constructed, the first list view's template is missing: the
\* script ended there, and a submit was then handled with no list view
C16_Witness ==
    /\ pc = "failed"
    /\ FormConstructed
    /\ ~ListResolved
    /\ lastOp.op = "submit"
    /\ ~lastOp.alert
    /\ Len(stores[projectState].projects) = 1

(***************************************************************************)
(* The submit listener's receiver                                          *)
(***************************************************************************)

\* C12: every time the submit listener runs, with whatever receiver it is
\* called, it runs as the ProjectInput that registered it and does not
\* throw: it validates the values of that object's fields, adds a project
\* with the title they held and clears them if they are acceptable, shows
\* the alert and leaves them if they are not.
C12_BoundReceiver ==
    [][lastOp'.op = "submit" =>
          /\ lastOp'.this = prjInput
          /\ ~lastOp'.threw
          /\ lastOp'.alert = ~Acceptable(Inputs)
          /\ IF Acceptable(Inputs)
             THEN /\ Inputs' = Cleared
                  /\ LET new == stores'[lastOp'.store].projects
                     IN  /\ Len(new) = Len(stores[lastOp'.store].projects) + 1
                         /\ new[Len(new)].title = Inputs[1]
             ELSE /\ Inputs' = Inputs
                  /\ stores' = stores]_vars

\* the listener was called without a receiver, ran as the ProjectInput,
\* added the project typed and cleared the fields
C12_Witness ==
    /\ lastOp.op = "submit"
    /\ lastOp.receiver = "undefined"
    /\ lastOp.this = prjInput
    /\ ~lastOp.alert
    /\ lastOp.entered = << <<"a">>, <<"x">>, <<"1">> >>
    /\ Len(stores[projectState].projects) = 1
    /\ Inputs = Cleared

(***************************************************************************)
(* One store for the form and the list views                               *)
(***************************************************************************)

\* C18: in the started application the store an accepted submit adds to is
\* the store both list views registered their listener on, and the submit
\* calls the active view's listener once and the finished view's listener
\* once, whatever other stores getInstance has created.
C18_SharedStore ==
    [][(lastOp'.op = "submit" /\ ~lastOp'.alert /\ pc = "ready") =>
          /\ \A s \in DOMAIN stores :
                stores'[s].projects # stores[s].projects <=> s = lastOp'.store
          /\ stores[lastOp'.store].listeners = <<"active", "finished">>
          /\ \A s \in DOMAIN stores :
                s # lastOp'.store => stores[s].listeners = <<>>
          /\ Len(calls') = 2
          /\ calls'[1].fn = "active"
          /\ calls'[2].fn = "finished"]_vars

\* getInstance created a second store, then a submit was accepted: both
\* views were called and the active view shows the title
C18_Witness ==
    /\ Len(stores) = 2
    /\ lastOp.op = "submit"
    /\ ~lastOp.alert
    /\ pc = "ready"
    /\ Len(calls) = 2
    /\ listEl["active"] = << <<"a">> >>
    /\ stores[2].projects = <<>>

(***************************************************************************)
(* The validator as a function                                             *)
(***************************************************************************)

\* a text is blank if it is empty or holds white space only; a number is
\* never blank, its text has at least one character
Blank(value) ==
    value.type = "string"
        /\ \A i \in DOMAIN value.str : value.str[i] \in WhiteSpace

OnlyRequired(r) ==
    /\ r.required
    /\ r.minLength = Undefined /\ r.maxLength = Undefined
    /\ r.min = Undefined /\ r.max = Undefined

\* C13: with required set, validate returns false for every value that is
\* empty or holds white space only, whatever the other constraints, and
\* returns true for every other value when no other constraint is set.
C13_Required ==
    validatableInput # Undefined =>
        LET r == The(validatableInput)
        IN  /\ (r.required /\ Blank(r.value)) => ~isValid
            /\ (OnlyRequired(r) /\ ~Blank(r.value)) => isValid

\* validate was called with required set on a text of two spaces and
\* returned false
C13_Witness ==
    /\ validatableInput =
          Some(Validatable(Str(<<" ", " ">>), TRUE, Undefined, Undefined,
                           Undefined, Undefined))
    /\ ~isValid

\* each constraint on its own: satisfied if absent or if the value is not
\* of the type it is about
RequiredHolds(r) == r.required => ~Blank(r.value)

MinLengthHolds(r) ==
    (r.minLength # Undefined /\ r.value.type = "string") =>
        Len(r.value.str) >= The(r.minLength)

MaxLengthHolds(r) ==
    (r.maxLength # Undefined /\ r.value.type = "string") =>
        Len(r.value.str) <= The(r.maxLength)

MinHolds(r) ==
    (r.min # Undefined /\ r.value.type = "number") =>
        (~r.value.num.nan
            /\ r.value.num.num >= The(r.min) * r.value.num.den)

MaxHolds(r) ==
    (r.max # Undefined /\ r.value.type = "number") =>
        (~r.value.num.nan
            /\ r.value.num.num <= The(r.max) * r.value.num.den)

\* C14: validate returns the conjunction of the constraints that are set
\* and apply to the value's type; in particular a number checked against
\* min 1 and max 9 is valid exactly if it lies in 1..9.
C14_Conjunction ==
    validatableInput # Undefined =>
        LET r == The(validatableInput)
        IN  /\ isValid <=> (RequiredHolds(r) /\ MinLengthHolds(r)
                              /\ MaxLengthHolds(r) /\ MinHolds(r)
                              /\ MaxHolds(r))
            /\ (r.value.type = "number" /\ r.min = Some(MinPeople)
                   /\ r.max = Some(MaxPeople)) =>
                  (isValid <=> \E n \in MinPeople..MaxPeople :
                                  r.value.num = Num(n))

\* validate was called on the number 10 with min 1 and max 9 and returned
\* false
C14_Witness ==
    /\ validatableInput =
          Some(Validatable(NumVal(Num(10)), TRUE, Undefined, Undefined,
                           Some(1), Some(9)))
    /\ ~isValid

\* C15: a constraint about the other type is skipped: min and max never
\* make a text invalid, minLength and maxLength never make a number
\* invalid.
C15_TypeMismatch ==
    validatableInput # Undefined =>
        LET r == The(validatableInput)
        IN  /\ r.value.type = "string" =>
                  (isValid <=> (RequiredHolds(r) /\ MinLengthHolds(r)
                                  /\ MaxLengthHolds(r)))
            /\ r.value.type = "number" =>
                  (isValid <=> (MinHolds(r) /\ MaxHolds(r)))

\* validate was called on the text "a" with min 1 and max 9, and on nothing
\* else, and returned true
C15_Witness ==
    /\ validatableInput =
          Some(Validatable(Str(<<"a">>), FALSE, Undefined, Undefined,
                           Some(1), Some(9)))
    /\ isValid

(***************************************************************************)
(* What listeners receive over time                                        *)
(***************************************************************************)

\* C17: every array a listener is called with is the store's sequence as it
\* is after the project was appended, the new project last; the n-th array
\* a listener receives extends the one before by the project added, none
\* is missed or received twice, and a listener registered on the empty
\* store receives arrays of lengths 1, 2, 3, ...
C17_Snapshots ==
    /\ \A s \in DOMAIN received : \A i \in DOMAIN received[s] :
          LET r == received[s][i]
              projects == stores[s].projects
          IN  /\ Len(r.snapshots) = Len(projects) - r.since
              /\ \A n \in DOMAIN r.snapshots :
                    /\ r.snapshots[n] = SubSeq(projects, 1, r.since + n)
                    /\ n > 1 => r.snapshots[n] =
                                  Append(r.snapshots[n - 1],
                                         projects[r.since + n])
                    /\ r.since = 0 => Len(r.snapshots[n]) = n
    /\ lastOp.op = "addProject" =>
          \A j \in DOMAIN calls :
             LET items == calls[j].items
                 args == addCalls[lastOp.store][Len(addCalls[lastOp.store])]
             IN  /\ items = stores[lastOp.store].projects
                 /\ items[Len(items)].title = args[1]
                 /\ items[Len(items)].description = args[2]
                 /\ items[Len(items)].people = args[3]

\* a test listener registered on the empty store has received two arrays
C17_Witness ==
    /\ Len(stores[projectState].listeners) >= 3
    /\ stores[projectState].listeners[3] = "record"
    /\ received[projectState][3].since = 0
    /\ Len(received[projectState][3].snapshots) = 2
    /\ Len(received[projectState][3].snapshots[2]) = 2

\* C19: addListener appends the callback to the store's listeners and does
\* nothing else: the projects of every store and what the views show are
\* unchanged and no listener is called; a listener registered when the
\* store holds k projects receives nothing until the next addProject, and
\* the first array it receives has k + 1 projects.
C19_AddListenerFrame ==
    [][/\ lastOp'.op = "addListener" =>
            LET s == lastOp'.store
            IN  /\ stores'[s].listeners =
                      Append(stores[s].listeners, lastOp'.listener)
                /\ stores'[s].projects = stores[s].projects
                /\ \A t \in DOMAIN stores : t # s => stores'[t] = stores[t]
                /\ calls' = <<>>
                /\ assignedProjects' = assignedProjects
                /\ listEl' = listEl
                /\ received'[s] =
                      Append(received[s],
                             [since |-> Len(stores[s].projects),
                              snapshots |-> <<>>])
       /\ lastOp'.op = "addProject" =>
            \A i \in DOMAIN received[lastOp'.store] :
               LET before == received[lastOp'.store][i]
                   after == received'[lastOp'.store][i]
               IN  before.snapshots = <<>> =>
                      /\ Len(after.snapshots) = 1
                      /\ Len(after.snapshots[1]) = before.since + 1
       /\ lastOp'.op # "addProject" =>
            \A s \in DOMAIN received : \A i \in DOMAIN received[s] :
               received'[s][i] = received[s][i]]_vars

\* a test listener registered when the store held one project has received
\* one array, of two projects
C19_Witness ==
    \E i \in DOMAIN received[projectState] :
       /\ stores[projectState].listeners[i] \in TestListeners
       /\ received[projectState][i].since = 1
       /\ Len(received[projectState][i].snapshots) = 1
       /\ Len(received[projectState][i].snapshots[1]) = 2

(***************************************************************************)
(* Order of construction and events                                        *)
(***************************************************************************)

Listening(type) ==
    \E i \in DOMAIN stores[projectState].listeners :
       stores[projectState].listeners[i] = type

\* C20: a list view whose listener is registered has its item list named
\* and its heading set, so a listener never renders into a list that has no
\* id yet and never throws; a submit is handled only after the script has
\* run to its end, and if no construction failed, the form and both list
\* views are then complete.
C20_ConstructedBeforeSubmit ==
    /\ \A type \in ListTypes :
          Listening(type) =>
             /\ ulId[type] = Some(ListId(type))
             /\ heading[type] # ""
    /\ \A j \in DOMAIN calls :
          calls[j].fn \in ListTypes => ulId[calls[j].fn] # Undefined
    /\ lastOp.op = "submit" =>
          /\ ~lastOp.threw
          /\ ScriptEnded
          /\ FormConstructed
          /\ pc = "ready" =>
                /\ stores[projectState].listeners = <<"active", "finished">>
                /\ \A type \in ListTypes : ListConstructed(type)
                /\ Len(calls) \in {0, 2}

\* the first submit of the started application was accepted and both views
\* rendered into their named lists
C20_Witness ==
    /\ lastOp.op = "submit"
    /\ pc = "ready"
    /\ ~lastOp.alert
    /\ ~lastOp.threw
    /\ Len(calls) = 2
    /\ ulId["active"] = Some(ListId("active"))
    /\ listEl["active"] = << <<"a">> >>
    /\ Len(stores) = 1

====
